---- MODULE Spec2Model ----
(***************************************************************************)
(* Model of videojs-event-tracking: the pause tracker (PauseTracking) and  *)
(* the performance aggregator (PerformanceTracking) of                     *)
(* src/tracking/pause.js, driven by the host player's events, the page's   *)
(* beforeunload signal and the debounce timers of setTimeout.              *)
(*                                                                         *)
(* Units.  Date.now() is the millisecond clock `now`.  The tracker's       *)
(* pauseTime is (Date.now() - initPauseTime) / 1000 seconds in the code;   *)
(* the model keeps it in milliseconds, so that the division is exact.      *)
(* Playback positions and durations are given in half seconds and rounded  *)
(* by toFixed0; buffering times are given in half milliseconds and rounded *)
(* by toFixed3 to whole milliseconds.                                      *)
(***************************************************************************)
EXTENDS Integers, Sequences, FiniteSets, TLC

VARIABLES
    now,            \* Date.now(), in ms
    pt,             \* PauseTracking's closure: pauseTime, pauseCount, initPauseTime, timer, locked
    timers,         \* the setTimeout callbacks that are scheduled and not yet run or cleared
    nextId,         \* the handle the next setTimeout returns
    perf,           \* PerformanceTracking's closure: session, the counters, timestamps
    unloadListener, \* triggerAndReset is registered for window's beforeunload
    config,         \* the plugin's options, and what the constructor made of them:
                    \* active, triggerOnPause, triggerInterval
    ev,             \* the handler that ran last, with its inputs
    calls,          \* the snapshots config.performance received from that handler, in order
    emits,          \* the tracking:* events the pause tracker triggered in that handler
    hist            \* history since the tracker's last reset (observation only)

vars == <<now, pt, timers, nextId, perf, unloadListener, config, ev, calls, emits, hist>>

----------------------------------------------------------------------------
(* Bounds of the model *)

\* the clock stops after MaxTicks ticks
MaxTicks == 3
\* a tick is the debounce delay divided by TicksPerDelay
TicksPerDelay == 2
\* setTimeout is called at most MaxTimers times
MaxTimers == 3
\* v4() is called at most MaxSessions times after construction
MaxSessions == 2
\* timeupdate events in any order come at the seconds 0 .. MaxSecond
MaxSecond == 1
\* tracking:buffered events come while bufferDuration stays within MaxBuffer ms
MaxBuffer == 1

(* Program constants *)

\* setTimeout(..., 300)
DebounceDelay == 300
\* config.triggerInterval's default
DefaultTriggerInterval == 10

Null == -1
TickMs == DebounceDelay \div TicksPerDelay

----------------------------------------------------------------------------
(* Pure helpers *)

\* +x.toFixed(0) for x >= 0 given in half seconds: the nearest whole second,
\* the larger one of two equally near
toFixed0(halves) == (halves + 1) \div 2

\* +x.toFixed(3) for x >= 0 seconds given in half milliseconds: the nearest
\* whole millisecond (kept in half milliseconds), the larger of two equally near
toFixed3(halfMs) == ((halfMs + 1) \div 2) * 2

\* Array.prototype.indexOf(x) < 0
NotIn(seq, x) == \A i \in 1..Len(seq) : seq[i] # x

\* uuid's v4(): an identifier no session had before
v4(last) == last + 1

\* isSeeking() without its scrubbing() half
isSeeking_seekingOnly(seeking, scrubbing) == seeking # "none" /\ seeking = "yes"

\* isSeeking(): seeking and scrubbing are "none" when the player has no such
\* function, else what the function returns
isSeeking(seeking, scrubbing) ==
    (seeking # "none" /\ seeking = "yes") \/ (scrubbing # "none" /\ scrubbing = "yes")

----------------------------------------------------------------------------
(* The world a handler runs in.  A handler is an operator from world to     *)
(* world; an action runs one host event's handlers to completion.           *)

World ==
    [now |-> now, pt |-> pt, timers |-> timers, nextId |-> nextId, perf |-> perf,
     unloadListener |-> unloadListener, config |-> config,
     calls |-> <<>>, emits |-> <<>>]

(* PerformanceTracking *)

\* the constructor without its guard
PerformanceTracking_noGuard(options) ==
    [options |-> options,
     active |-> TRUE,
     triggerOnPause |-> IF options.triggerOnPause.type = "boolean"
                        THEN options.triggerOnPause.value ELSE TRUE,
     triggerInterval |-> IF options.triggerInterval.type = "number"
                         THEN options.triggerInterval.value ELSE DefaultTriggerInterval]

\* The constructor up to its constants: it returns before it registers any
\* handler (active = FALSE) when there are no options or performance is not a
\* function; an option of another type than expected gets its default.
PerformanceTracking(options) ==
    [options |-> options,
     active |-> options.given /\ options.performance = "function",
     triggerOnPause |-> IF options.triggerOnPause.type = "boolean"
                        THEN options.triggerOnPause.value ELSE TRUE,
     triggerInterval |-> IF options.triggerInterval.type = "number"
                         THEN options.triggerInterval.value ELSE DefaultTriggerInterval]

\* player.on(...), window.addEventListener(...): the handler w1 is what w
\* becomes only if the constructor came to register it
On(w, w1) == IF w.config.active THEN w1 ELSE w

\* the data object of trigger()
Snapshot(p) ==
    [session |-> p.session, pauseTime |-> p.pauseTime, pauseCount |-> p.pauseCount,
     seekCount |-> p.seekCount, bufferCount |-> p.bufferCount,
     totalDuration |-> p.totalDuration, watchedDuration |-> p.watchedDuration,
     bufferDuration |-> p.bufferDuration, initialLoadTime |-> p.initialLoadTime]

\* reset() that forgets initialLoadTime
Perf_reset_keepsLoadTime(w) ==
    [w EXCEPT !.perf =
        [session |-> v4(w.perf.session), seekCount |-> 0, pauseTime |-> 0,
         pauseCount |-> 0, bufferCount |-> 0, bufferDuration |-> 0,
         timestamps |-> <<>>, totalDuration |-> 0, watchedDuration |-> 0,
         initialLoadTime |-> w.perf.initialLoadTime]]

Perf_reset(w) ==
    [w EXCEPT !.perf =
        [session |-> v4(w.perf.session), seekCount |-> 0, pauseTime |-> 0,
         pauseCount |-> 0, bufferCount |-> 0, bufferDuration |-> 0,
         timestamps |-> <<>>, totalDuration |-> 0, watchedDuration |-> 0,
         initialLoadTime |-> 0]]

\* trigger() that also draws a new identifier
Perf_trigger_newSession(w) ==
    [w EXCEPT !.calls = Append(@, Snapshot(w.perf)), !.perf.session = v4(@)]

Perf_trigger(w) == [w EXCEPT !.calls = Append(@, Snapshot(w.perf))]

\* triggerAndReset() with its two calls swapped
Perf_triggerAndReset_resetFirst(w) == Perf_trigger(Perf_reset(w))

Perf_triggerAndReset(w) == Perf_reset(Perf_trigger(w))

\* a dispose that leaves the beforeunload listener registered
Perf_removeListener_keeps(w) == w

\* player.on('dispose', ...) of line 155
Perf_removeListener(w) == [w EXCEPT !.unloadListener = FALSE]

\* the loadstart handler without its totalDuration test
Perf_onLoadstart_always(w) == Perf_reset(Perf_trigger(w))

Perf_onLoadstart(w) ==
    Perf_reset(IF w.perf.totalDuration > 0 THEN Perf_trigger(w) ELSE w)

\* the timeupdate handler without its indexOf test
Perf_onTimeupdate_noIndexOf(w, currentTime) ==
    LET ts == Append(w.perf.timestamps, toFixed0(currentTime))
        w1 == [w EXCEPT !.perf.timestamps = ts, !.perf.watchedDuration = Len(ts)]
    IN  IF w1.perf.watchedDuration % w.config.triggerInterval = 0
        THEN Perf_trigger(w1)
        ELSE w1

\* the timeupdate handler with the interval test moved out of the indexOf test
Perf_onTimeupdate_triggerOutside(w, currentTime) ==
    LET curTime == toFixed0(currentTime)
        w1 == IF NotIn(w.perf.timestamps, curTime)
              THEN [w EXCEPT !.perf.timestamps = Append(@, curTime),
                             !.perf.watchedDuration = Len(w.perf.timestamps) + 1]
              ELSE w
    IN  IF w1.perf.watchedDuration % w.config.triggerInterval = 0
        THEN Perf_trigger(w1)
        ELSE w1

Perf_onTimeupdate(w, currentTime) ==
    LET curTime == toFixed0(currentTime)
    IN  IF NotIn(w.perf.timestamps, curTime)
        THEN LET ts == Append(w.perf.timestamps, curTime)
                 w1 == [w EXCEPT !.perf.timestamps = ts,
                                 !.perf.watchedDuration = Len(ts)]
             IN  IF w1.perf.watchedDuration % w.config.triggerInterval = 0
                 THEN Perf_trigger(w1)
                 ELSE w1
        ELSE w

Perf_onLoadeddata(w, duration) ==
    [w EXCEPT !.perf.totalDuration = toFixed0(duration)]

Perf_onSeek(w, data) == [w EXCEPT !.perf.seekCount = data.seekCount]

\* the tracking:pause handler that triggers before it adopts the count
Perf_onPause_triggerFirst(w, data) ==
    LET w1 == IF w.config.triggerOnPause THEN Perf_trigger(w) ELSE w
    IN  [w1 EXCEPT !.perf.pauseCount = data.pauseCount]

Perf_onPause(w, data) ==
    LET w1 == [w EXCEPT !.perf.pauseCount = data.pauseCount]
    IN  IF w.config.triggerOnPause THEN Perf_trigger(w1) ELSE w1

Perf_onUnpause(w, data) ==
    [w EXCEPT !.perf.pauseTime = data.pauseTime,
              !.perf.pauseCount = data.pauseCount]

Perf_onBuffered(w, data) ==
    [w EXCEPT !.perf.bufferCount = data.bufferCount,
              !.perf.bufferDuration = toFixed3(@ + data.secondsToLoad)]

\* a tracking:firstplay handler that keeps the first payload of the session
Perf_onFirstplay_firstWins(w, data) ==
    IF w.perf.initialLoadTime = 0
    THEN [w EXCEPT !.perf.initialLoadTime = data.secondsToLoad]
    ELSE w

Perf_onFirstplay(w, data) ==
    [w EXCEPT !.perf.initialLoadTime = data.secondsToLoad]

\* player.trigger(type, data): the event is recorded and its subscriber runs
\* synchronously
Trigger(w, type, data) ==
    LET w1 == [w EXCEPT !.emits = Append(@, [type |-> type, data |-> data])]
    IN  IF type = "tracking:pause" THEN On(w1, Perf_onPause(w1, data))
        ELSE On(w1, Perf_onUnpause(w1, data))

(* PauseTracking *)

\* clearTimeout(timer): the callback with that handle, if still scheduled
clearTimeout(ts, handle) == {t \in ts : t.id # handle}

Pause_reset(w) ==
    [w EXCEPT !.timers = IF w.pt.timer # Null THEN clearTimeout(@, w.pt.timer) ELSE @,
              !.pt.pauseTime = 0,
              !.pt.pauseCount = 0,
              !.pt.initPauseTime = Null,
              !.pt.locked = FALSE]

\* a play handler that keeps the length of the last pause only
Pause_onPlay_lastPauseOnly(w) ==
    IF w.pt.initPauseTime # Null
    THEN LET w1 == [w EXCEPT !.pt.pauseTime = w.now - w.pt.initPauseTime]
             w2 == Trigger(w1, "tracking:unpause",
                           [pauseTime |-> w1.pt.pauseTime, pauseCount |-> w1.pt.pauseCount])
         IN  [w2 EXCEPT !.pt.initPauseTime = Null]
    ELSE w

Pause_onPlay(w) ==
    IF w.pt.initPauseTime # Null
    THEN LET w1 == [w EXCEPT !.pt.pauseTime = @ + (w.now - w.pt.initPauseTime)]
             w2 == Trigger(w1, "tracking:unpause",
                           [pauseTime |-> w1.pt.pauseTime, pauseCount |-> w1.pt.pauseCount])
         IN  [w2 EXCEPT !.pt.initPauseTime = Null]
    ELSE w

\* setTimeout(callback, 300): a new handle, the callback due after the delay
setTimeout(w, delay) ==
    [w EXCEPT !.timers = @ \cup {[id |-> w.nextId, due |-> w.now + delay]},
              !.pt.timer = w.nextId,
              !.nextId = @ + 1]

Pause_onPause(w, seeking, scrubbing) ==
    IF isSeeking(seeking, scrubbing) \/ w.pt.locked
    THEN w
    ELSE setTimeout(w, DebounceDelay)

\* the callback without its player.trigger
Pause_onTimer_silent(w) ==
    [w EXCEPT !.pt.pauseCount = @ + 1, !.pt.initPauseTime = w.now]

\* the callback of setTimeout, lines 55-59
Pause_onTimer(w) ==
    LET w1 == [w EXCEPT !.pt.pauseCount = @ + 1, !.pt.initPauseTime = w.now]
    IN  Trigger(w1, "tracking:pause",
                [pauseTime |-> w1.pt.pauseTime, pauseCount |-> w1.pt.pauseCount])

----------------------------------------------------------------------------
(* History since the tracker's last reset; read by the properties only.     *)
(*   played   handles of scheduled callbacks after whose scheduling, and    *)
(*            before whose due time, a raw play event was handled           *)
(*   stale    handles of scheduled callbacks that a reset left scheduled    *)
(*   pauses   number of tracking:pause events since the reset               *)
(*   last     the last tracking:* event since the reset, or "none"          *)
(*   stage    "fresh" after a reset; "pending" when the only raw event      *)
(*            since was one accepted pause (its handle in id); "confirmed"  *)
(*            when that pause's callback has run (at time `at`); else       *)
(*            "other"                                                       *)
(*   raw      the last raw play or pause event since the reset: "play",     *)
(*            "pause", or "none"                                            *)
(* and since the aggregator's last reset:                                   *)
(*   seen     the whole seconds at which timeupdate events came             *)
(*   counted  number of tracking:pause events                               *)

HistInit ==
    [played |-> {}, stale |-> {}, pauses |-> 0, last |-> "none",
     stage |-> "fresh", id |-> 0, at |-> 0, raw |-> "none", seen |-> {},
     counted |-> 0]

HistEmits(h, es) ==
    [h EXCEPT !.pauses = @ + Cardinality({i \in 1..Len(es) : es[i].type = "tracking:pause"}),
              !.counted = @ + Cardinality({i \in 1..Len(es) : es[i].type = "tracking:pause"}),
              !.last = IF es = <<>> THEN @ ELSE es[Len(es)].type]

Pending(w) == {t.id : t \in w.timers}

HistReset(h, w) ==
    [HistInit EXCEPT !.played = h.played \cap Pending(w), !.stale = Pending(w)]

HistPlay(h, w) ==
    [HistEmits(h, w.emits) EXCEPT
        !.played = @ \cup {t.id : t \in {u \in w.timers : u.due > w.now}},
        !.stage = "other",
        !.raw = "play"]

HistUnload(h, w0, w) ==
    IF w.perf.session # w0.perf.session THEN [h EXCEPT !.seen = {}, !.counted = 0] ELSE h

HistTimeupdate(h, currentTime) ==
    [h EXCEPT !.seen = @ \cup {(currentTime + 1) \div 2}]

HistPause(h, w0, w) ==
    IF w.nextId = w0.nextId THEN [h EXCEPT !.raw = "pause"]
    ELSE [h EXCEPT !.stage = IF @ = "fresh" THEN "pending" ELSE "other",
                   !.id = IF h.stage = "fresh" THEN w0.nextId ELSE 0,
                   !.raw = "pause"]

HistTimer(h, t, w) ==
    [HistEmits(h, w.emits) EXCEPT
        !.played = @ \ {t.id}, !.stale = @ \ {t.id},
        !.stage = IF h.stage = "pending" /\ h.id = t.id THEN "confirmed" ELSE @,
        !.at = IF h.stage = "pending" /\ h.id = t.id THEN w.now ELSE @]

----------------------------------------------------------------------------
(* Inputs *)

\* what player.seeking / player.scrubbing give
SeekStates == {"none", "yes", "no"}
\* player.currentTime(), in half seconds
Positions == 0..(2 * MaxSecond)
\* player.currentTime() of a playback that starts at 0 and goes on past the
\* default trigger interval
PlaybackPositions == 0..(2 * (DefaultTriggerInterval + MaxSecond))
\* player.duration(), in half seconds
Durations == {0, 3}
\* the counts the derivers publish
Counts == {0, 1}
\* secondsToLoad of tracking:buffered, in half milliseconds
BufferTimes == {1, 2}
\* secondsToLoad of tracking:firstplay, in seconds
LoadTimes == 1..2
\* config.triggerInterval, when it is a number
TriggerIntervals == {2, DefaultTriggerInterval}
\* an option that is not there
Undefined == [type |-> "undefined", value |-> 0]
\* The plugin's options by typeof: given is typeof config !== 'undefined',
\* performance is typeof config.performance; without options there are no
\* fields
Options ==
    {o \in [given : BOOLEAN,
            performance : {"function", "undefined"},
            triggerOnPause : {[type |-> "boolean", value |-> b] : b \in BOOLEAN}
                             \cup {Undefined},
            triggerInterval : {[type |-> "number", value |-> n] : n \in TriggerIntervals}
                              \cup {[type |-> "string", value |-> 0], Undefined}] :
        ~o.given => /\ o.performance = "undefined"
                    /\ o.triggerOnPause = Undefined
                    /\ o.triggerInterval = Undefined}

----------------------------------------------------------------------------
(* The state machine *)

Init ==
    /\ now = 0
    /\ pt = [pauseTime |-> 0, pauseCount |-> 0, initPauseTime |-> Null,
             timer |-> Null, locked |-> FALSE]
    /\ timers = {}
    /\ nextId = 1
    /\ perf = [session |-> v4(0), seekCount |-> 0, pauseTime |-> 0, pauseCount |-> 0,
               bufferCount |-> 0, totalDuration |-> 0, watchedDuration |-> 0,
               bufferDuration |-> 0, initialLoadTime |-> 0, timestamps |-> <<>>]
    /\ config \in {PerformanceTracking(o) : o \in Options}
    /\ unloadListener = config.active
    /\ ev = [name |-> "init", arg |-> <<>>]
    /\ calls = <<>>
    /\ emits = <<>>
    /\ hist = HistInit

\* the handlers' result becomes the state
Commit(w) ==
    /\ pt' = w.pt
    /\ timers' = w.timers
    /\ nextId' = w.nextId
    /\ perf' = w.perf
    /\ unloadListener' = w.unloadListener
    /\ calls' = w.calls
    /\ emits' = w.emits
    /\ UNCHANGED <<now, config>>

\* v4() can still be called
CanReset == perf.session <= MaxSessions

Tick ==
    /\ now < MaxTicks * TickMs
    /\ now' = now + TickMs
    /\ ev' = [name |-> "tick", arg |-> <<>>]
    /\ calls' = <<>>
    /\ emits' = <<>>
    /\ UNCHANGED <<pt, timers, nextId, perf, unloadListener, config, hist>>

Play ==
    LET w == Pause_onPlay(World)
    IN  /\ Commit(w)
        /\ ev' = [name |-> "play", arg |-> <<>>]
        /\ hist' = HistPlay(hist, w)

Pause ==
    \E seeking \in SeekStates, scrubbing \in SeekStates :
        LET w == Pause_onPause(World, seeking, scrubbing)
        IN  /\ w.nextId <= MaxTimers + 1
            /\ Commit(w)
            /\ ev' = [name |-> "pause", arg |-> [seeking |-> seeking, scrubbing |-> scrubbing]]
            /\ hist' = HistPause(hist, World, w)

\* the event loop runs the scheduled callback that is due first
TimerFire ==
    \E t \in timers :
        /\ t.due <= now
        /\ \A u \in timers : t.id <= u.id
        /\ LET w == Pause_onTimer([World EXCEPT !.timers = @ \ {t}])
           IN  /\ Commit(w)
               /\ ev' = [name |-> "timer", arg |-> [id |-> t.id]]
               /\ hist' = HistTimer(hist, t, w)

Loadstart ==
    /\ CanReset
    /\ LET w0 == Pause_reset(World)
           w == On(w0, Perf_onLoadstart(w0))
       IN  /\ Commit(w)
           /\ ev' = [name |-> "loadstart", arg |-> <<>>]
           /\ hist' = HistReset(hist, w)

Ended ==
    /\ CanReset
    /\ LET w0 == Pause_reset(World)
           w == On(w0, Perf_triggerAndReset(w0))
       IN  /\ Commit(w)
           /\ ev' = [name |-> "ended", arg |-> <<>>]
           /\ hist' = HistReset(hist, w)

Dispose ==
    /\ CanReset
    /\ LET w0 == Pause_reset(World)
           w == On(w0, Perf_triggerAndReset(Perf_removeListener(w0)))
       IN  /\ Commit(w)
           /\ ev' = [name |-> "dispose", arg |-> <<>>]
           /\ hist' = HistReset(hist, w)

\* window's beforeunload
PageUnload ==
    /\ CanReset
    /\ LET w == IF unloadListener THEN Perf_triggerAndReset(World) ELSE World
       IN  /\ Commit(w)
           /\ ev' = [name |-> "beforeunload", arg |-> <<>>]
           /\ hist' = HistUnload(hist, World, w)

Timeupdate ==
    \E currentTime \in Positions :
        /\ Commit(On(World, Perf_onTimeupdate(World, currentTime)))
        /\ ev' = [name |-> "timeupdate", arg |-> [currentTime |-> currentTime]]
        /\ hist' = HistTimeupdate(hist, currentTime)

\* timeupdate while the player plays on from 0, replays included: the position
\* is at most one second past the seconds it has been at
Playback ==
    \E currentTime \in PlaybackPositions :
        /\ toFixed0(currentTime) <= Len(perf.timestamps)
        /\ Commit(On(World, Perf_onTimeupdate(World, currentTime)))
        /\ ev' = [name |-> "timeupdate", arg |-> [currentTime |-> currentTime]]
        /\ hist' = HistTimeupdate(hist, currentTime)

Loadeddata ==
    \E duration \in Durations :
        /\ Commit(On(World, Perf_onLoadeddata(World, duration)))
        /\ ev' = [name |-> "loadeddata", arg |-> [duration |-> duration]]
        /\ UNCHANGED hist

Seek ==
    \E n \in Counts :
        /\ Commit(On(World, Perf_onSeek(World, [seekCount |-> n])))
        /\ ev' = [name |-> "tracking:seek", arg |-> [seekCount |-> n]]
        /\ UNCHANGED hist

Buffered ==
    \E n \in Counts, s \in BufferTimes :
        /\ perf.bufferDuration + s <= 2 * MaxBuffer
        /\ Commit(On(World, Perf_onBuffered(World, [bufferCount |-> n, secondsToLoad |-> s])))
        /\ ev' = [name |-> "tracking:buffered", arg |-> [bufferCount |-> n, secondsToLoad |-> s]]
        /\ UNCHANGED hist

\* (ev also keeps what initialLoadTime was before the event)
Firstplay ==
    \E s \in LoadTimes :
        /\ Commit(On(World, Perf_onFirstplay(World, [secondsToLoad |-> s])))
        /\ ev' = [name |-> "tracking:firstplay",
                  arg |-> [secondsToLoad |-> s, before |-> perf.initialLoadTime]]
        /\ UNCHANGED hist

\* The aggregator's subscription to tracking:pause with the pause tracker left
\* out: some publisher triggers the event with a count of its own
TrackingPause ==
    \E n \in Counts :
        LET data == [pauseTime |-> 0, pauseCount |-> n]
        IN  /\ Commit(Trigger(World, "tracking:pause", data))
            /\ ev' = [name |-> "tracking:pause", arg |-> data]
            /\ UNCHANGED hist

\* Likewise for tracking:unpause
TrackingUnpause ==
    \E n \in Counts :
        LET data == [pauseTime |-> TickMs, pauseCount |-> n]
        IN  /\ Commit(Trigger(World, "tracking:unpause", data))
            /\ ev' = [name |-> "tracking:unpause", arg |-> data]
            /\ UNCHANGED hist

Next ==
    \/ Tick \/ Play \/ Pause \/ TimerFire
    \/ Loadstart \/ Ended \/ Dispose \/ PageUnload
    \/ Timeupdate \/ Loadeddata \/ Seek \/ Buffered \/ Firstplay

\* The whole program.  Its state space is the product of the tracker's and the
\* aggregator's; the properties are checked on the parts below, which share the
\* actions above.
Spec == Init /\ [][Next]_vars

\* the pause tracker with the aggregator listening to it
NextPause ==
    \/ Tick \/ Play \/ Pause \/ TimerFire
    \/ Loadstart \/ Ended \/ Dispose \/ PageUnload

\* the options are in order: a callback, a boolean and a number
Configured ==
    /\ config.active
    /\ config.options.triggerOnPause.type = "boolean"
    /\ config.options.triggerInterval.type = "number"

InitPause == Init /\ Configured /\ config.triggerInterval = DefaultTriggerInterval

SpecPause == InitPause /\ [][NextPause]_vars

\* the aggregator with the host's and the sibling derivers' events
NextPerf ==
    \/ Loadstart \/ Ended \/ Dispose \/ PageUnload
    \/ Timeupdate \/ Loadeddata \/ Seek \/ Buffered \/ Firstplay
    \/ TrackingPause \/ TrackingUnpause

InitPerf == Init /\ Configured /\ config.triggerOnPause /\ config.triggerInterval < DefaultTriggerInterval

SpecPerf == InitPerf /\ [][NextPerf]_vars

\* A raw pause that the tracker accepts (the player is not seeking and not
\* scrubbing), early enough for its callback to become due before the clock of
\* the model stops
PauseInTime ==
    \E seeking \in SeekStates \ {"yes"}, scrubbing \in SeekStates \ {"yes"} :
        LET w == Pause_onPause(World, seeking, scrubbing)
        IN  /\ now + DebounceDelay <= MaxTicks * TickMs
            /\ w.nextId <= MaxTimers + 1
            /\ Commit(w)
            /\ ev' = [name |-> "pause", arg |-> [seeking |-> seeking, scrubbing |-> scrubbing]]
            /\ hist' = HistPause(hist, World, w)

\* The tracker with raw pause and play and with loadstart for the resets (the
\* tracker's handler is the same for dispose and ended), where time goes on
\* and the event loop runs a callback that is due: setTimeout's callback runs
\* once its delay has passed, unless clearTimeout took it away
NextLive == Tick \/ Play \/ PauseInTime \/ TimerFire \/ Loadstart

InitLive == InitPause /\ config.triggerOnPause

SpecLive ==
    InitLive /\ [][NextLive]_vars /\ WF_vars(Tick) /\ WF_vars(TimerFire)

\* the aggregator under any options with triggerOnPause left out, the events
\* being those whose handlers call config.performance or make them call it
NextConfig ==
    \/ Loadstart \/ Ended \/ Dispose \/ PageUnload
    \/ Timeupdate \/ Loadeddata \/ Firstplay \/ TrackingPause

InitConfig == Init /\ config.options.triggerOnPause = Undefined

SpecConfig == InitConfig /\ [][NextConfig]_vars

\* a playback under the default configuration
NextInterval == Playback \/ Loadeddata \/ Loadstart \/ Ended

InitInterval == Init /\ Configured /\ config.triggerOnPause /\ config.triggerInterval = DefaultTriggerInterval

SpecInterval == InitInterval /\ [][NextInterval]_vars

----------------------------------------------------------------------------
(* The pause tracker's claims, under SpecPause *)

\* C1: a raw pause that a raw play follows before its debounce callback runs
\* emits nothing when the callback's time comes, and pauseCount stays as it was.
C1_SupersededPauseIsSilent ==
    [][(ev'.name = "timer" /\ ev'.arg.id \in hist.played)
        => (emits' = <<>> /\ pt'.pauseCount = pt.pauseCount)]_vars

\* C5: after a reset, one accepted raw pause and no other raw event or reset:
\* when that pause's callback runs it emits exactly one tracking:pause with
\* pauseCount = 1; a raw play T ms after that emits exactly one
\* tracking:unpause with pauseCount = 1 and pauseTime = the previous
\* pauseTime + T, and clears initPauseTime.
C5_DebounceConfirmation ==
    [][/\ (ev'.name = "timer" /\ hist.stage = "pending" /\ hist.id = ev'.arg.id)
            => emits' = <<[type |-> "tracking:pause",
                           data |-> [pauseTime |-> pt.pauseTime, pauseCount |-> 1]]>>
       /\ (ev'.name = "play" /\ hist.stage = "confirmed")
            => /\ emits' = <<[type |-> "tracking:unpause",
                              data |-> [pauseTime |-> pt.pauseTime + (now - hist.at),
                                        pauseCount |-> 1]]>>
               /\ pt'.initPauseTime = Null]_vars

\* C6: a raw pause while the player is seeking or scrubbing, or while locked is
\* set, schedules no callback and leaves pauseTime, pauseCount, initPauseTime
\* (and the timer handle) as they were; nothing is emitted.
C6_SeekPauseExemption ==
    [][(ev'.name = "pause"
        /\ (ev'.arg.seeking = "yes" \/ ev'.arg.scrubbing = "yes" \/ pt.locked))
        => (timers' = timers /\ nextId' = nextId /\ pt' = pt /\ emits' = <<>>)]_vars

\* C6's case: a pause came while the player was scrubbing (and not seeking), after
\* an earlier pause had been counted, and no callback is scheduled
C6_Witness ==
    /\ ev.name = "pause"
    /\ ev.arg.scrubbing = "yes"
    /\ ev.arg.seeking # "yes"
    /\ pt.pauseCount = 1
    /\ timers = {}

\* C7: between two resets tracking:pause and tracking:unpause alternate, starting
\* with tracking:pause; tracking:unpause comes only from a play; each payload's
\* pauseCount is the number of tracking:pause events since the reset.
C7_EmissionsAlternate ==
    [][/\ Len(emits') <= 1
       /\ \A i \in 1..Len(emits') :
            /\ emits'[i].type = "tracking:pause" => hist.last # "tracking:pause"
            /\ emits'[i].type = "tracking:unpause"
                 => (hist.last = "tracking:pause" /\ ev'.name = "play")
            /\ emits'[i].data.pauseCount = hist'.pauses]_vars

----------------------------------------------------------------------------
(* The aggregator's claims *)

\* the session's counters all read zero and no second is recorded
Cleared(p) ==
    /\ p.pauseTime = 0 /\ p.pauseCount = 0 /\ p.seekCount = 0 /\ p.bufferCount = 0
    /\ p.totalDuration = 0 /\ p.watchedDuration = 0 /\ p.bufferDuration = 0
    /\ p.initialLoadTime = 0
    /\ p.timestamps = <<>>

ResetEvents == {"loadstart", "ended", "dispose", "beforeunload"}

\* C2 as claimed: whenever a session that has counted something is reset, the
\* same handler first delivers exactly one snapshot, that of the session being
\* cleared.
C2_EveryResetDelivers ==
    [][(perf'.session # perf.session /\ ~Cleared(perf))
        => calls' = <<Snapshot(perf)>>]_vars

\* C2 as amended: the session is reset only by loadstart, ended, dispose and
\* page unload; the handler that resets it first delivers exactly one snapshot,
\* that of the session being cleared, except that loadstart delivers nothing
\* when totalDuration = 0; and every snapshot carries the identifier of the
\* session that is current when its handler starts, so that a session that was
\* reset is never delivered again.
C2_FinalDelivery ==
    [][/\ perf'.session # perf.session
            => /\ ev'.name \in ResetEvents
               /\ calls' = IF ev'.name = "loadstart" /\ perf.totalDuration = 0
                           THEN <<>>
                           ELSE <<Snapshot(perf)>>
       /\ \A i \in 1..Len(calls') : calls'[i].session = perf.session]_vars

\* C2's case: a page unload has delivered a session with watched seconds and a
\* duration, and the session is a new one
C2_Witness ==
    /\ ev.name = "beforeunload"
    /\ Len(calls) = 1
    /\ calls[1].watchedDuration > 0
    /\ calls[1].totalDuration > 0
    /\ perf.session # calls[1].session
    /\ Cleared(perf)

\* C3: ended and dispose deliver exactly one snapshot, equal to the session's
\* values when the event comes; afterwards the session has another identifier
\* than the delivered one, all counters are zero and no second is recorded.
C3_TerminalFlush ==
    [][ev'.name \in {"ended", "dispose"}
        => /\ calls' = <<Snapshot(perf)>>
           /\ perf'.session # calls'[1].session
           /\ Cleared(perf')]_vars

\* C3's case: ended has delivered a session in which every counter was set
C3_Witness ==
    /\ ev.name = "ended"
    /\ Len(calls) = 1
    /\ calls[1].totalDuration = 2
    /\ calls[1].watchedDuration = 2
    /\ calls[1].pauseCount = 1
    /\ calls[1].pauseTime > 0
    /\ calls[1].seekCount = 1
    /\ calls[1].bufferCount = 1
    /\ calls[1].bufferDuration > 0
    /\ calls[1].initialLoadTime = 2
    /\ perf.session = 2
    /\ Cleared(perf)

\* C4: loadstart delivers exactly one snapshot, with the prior session's values,
\* if totalDuration > 0, and none if totalDuration = 0; either way the session
\* is then reset; a loadstart right after ended delivers nothing.
C4_ReloadFlush ==
    [][/\ ev'.name = "loadstart"
            => /\ calls' = IF perf.totalDuration > 0 THEN <<Snapshot(perf)>> ELSE <<>>
               /\ perf'.session # perf.session
               /\ Cleared(perf')
       /\ (ev.name = "ended" /\ ev'.name = "loadstart") => calls' = <<>>]_vars

\* C4's case: loadstart has delivered the prior session, which had a duration
\* and a watched second, and has started another
C4_Witness ==
    /\ ev.name = "loadstart"
    /\ Len(calls) = 1
    /\ calls[1].totalDuration > 0
    /\ calls[1].watchedDuration = 1
    /\ calls[1].session = 2
    /\ perf.session = 3

Range(seq) == {seq[i] : i \in 1..Len(seq)}

\* C8: watchedDuration is the number of distinct whole seconds at which
\* timeupdate events came since the reset; a timeupdate at a second already seen
\* changes neither timestamps nor watchedDuration, one at a new second adds the
\* second and increases watchedDuration by exactly 1.
C8_WatchedSecondIdempotence ==
    [][/\ perf'.watchedDuration = Cardinality(hist'.seen)
       /\ ev'.name = "timeupdate"
            => LET second == toFixed0(ev'.arg.currentTime)
               IN  IF second \in hist.seen
                   THEN /\ perf'.timestamps = perf.timestamps
                        /\ perf'.watchedDuration = perf.watchedDuration
                   ELSE /\ perf'.timestamps = Append(perf.timestamps, second)
                        /\ perf'.watchedDuration = perf.watchedDuration + 1]_vars

\* C8's case: after the seconds 1 and 0, a timeupdate came again at second 1
C8_Witness ==
    /\ ev.name = "timeupdate"
    /\ perf.timestamps = <<1, 0>>
    /\ toFixed0(ev.arg.currentTime) = 1
    /\ perf.watchedDuration = 2

\* C9: a timeupdate delivers a snapshot exactly when it adds a new second and
\* the resulting watchedDuration is a multiple of triggerInterval; it then
\* delivers one snapshot, of the session with the new watchedDuration, and
\* it never resets the session.
C9_IntervalFlush ==
    [][ev'.name = "timeupdate"
        => LET second == toFixed0(ev'.arg.currentTime)
               flush == /\ second \notin hist.seen
                        /\ (perf.watchedDuration + 1) % config.triggerInterval = 0
           IN  /\ calls' = IF flush THEN <<Snapshot(perf')>> ELSE <<>>
               /\ flush => calls'[1].watchedDuration = perf.watchedDuration + 1
               /\ perf' = [perf EXCEPT
                     !.timestamps = IF second \in hist.seen THEN @ ELSE Append(@, second),
                     !.watchedDuration = IF second \in hist.seen THEN @ ELSE @ + 1]]_vars

\* with triggerInterval = 10, after the flush at the tenth second a timeupdate
\* came at a second already seen, and delivered nothing
C9_NoSecondFlush ==
    /\ config.triggerInterval = 10
    /\ ev.name = "timeupdate"
    /\ perf.watchedDuration = 10
    /\ toFixed0(ev.arg.currentTime) = 9
    /\ calls = <<>>

\* C9's case: with triggerInterval = 10, the timeupdate that made
\* watchedDuration 10 delivered one snapshot and left the session in place
C9_FlushAtTen ==
    /\ config.triggerInterval = 10
    /\ ev.name = "timeupdate"
    /\ Len(calls) = 1
    /\ calls[1].watchedDuration = 10
    /\ calls[1].session = perf.session

\* C10: when tracking:pause is emitted the aggregator adopts the payload's
\* pauseCount; it delivers exactly one snapshot, which carries that count, if
\* triggerOnPause, and none if not; the session identifier and the other
\* counters stay as they were.
C10_FlushOnPause ==
    [][ev'.name = "timer"
        => /\ Len(emits') = 1
           /\ emits'[1].type = "tracking:pause"
           /\ perf' = [perf EXCEPT !.pauseCount = emits'[1].data.pauseCount]
           /\ calls' = IF config.triggerOnPause THEN <<Snapshot(perf')>> ELSE <<>>]_vars

\* C10's case: the second counted pause of a session with pause time has been
\* delivered
C10_Witness ==
    /\ ev.name = "timer"
    /\ config.triggerOnPause
    /\ Len(calls) = 1
    /\ calls[1].pauseCount = 2
    /\ calls[1].pauseTime > 0
    /\ perf.pauseCount = 2

----------------------------------------------------------------------------
(* The sessions' claims *)

\* the six counters of b are each at least those of a
NotBelow(a, b) ==
    /\ b.pauseCount >= a.pauseCount
    /\ b.pauseTime >= a.pauseTime
    /\ b.seekCount >= a.seekCount
    /\ b.bufferCount >= a.bufferCount
    /\ b.bufferDuration >= a.bufferDuration
    /\ b.watchedDuration >= a.watchedDuration

\* the count that a deriver publishes in this step is not below the one it
\* published before in the session
PublishedInOrder ==
    /\ ev'.name = "tracking:seek" => ev'.arg.seekCount >= perf.seekCount
    /\ ev'.name = "tracking:buffered" => ev'.arg.bufferCount >= perf.bufferCount
    /\ ev'.name = "tracking:pause" => ev'.arg.pauseCount >= perf.pauseCount
    /\ ev'.name = "tracking:unpause"
        => /\ ev'.arg.pauseCount >= perf.pauseCount
           /\ ev'.arg.pauseTime >= perf.pauseTime

C12_SessionIdentity ==
    [][IF \/ ev'.name \in {"loadstart", "ended", "dispose"}
          \/ (ev'.name = "beforeunload" /\ unloadListener)
       THEN perf'.session > perf.session
       ELSE perf'.session = perf.session]_vars

\* C12's case: in a session that came after a reset, a pause flush has
\* delivered a snapshot and the session still has the delivered identifier
C12_Witness ==
    /\ ev.name = "tracking:pause"
    /\ Len(calls) = 1
    /\ calls[1].session = 2
    /\ perf.session = 2
    /\ perf.pauseCount = 1

\* C13: a page unload while the listener is registered delivers exactly one
\* snapshot and resets the session; dispose delivers exactly one snapshot and
\* removes the listener, which is never registered again; a page unload after
\* that delivers nothing and leaves the aggregator as it was.
C13_UnloadRelease ==
    [][/\ ev'.name = "beforeunload"
            => IF unloadListener
               THEN /\ calls' = <<Snapshot(perf)>>
                    /\ perf'.session # perf.session
                    /\ Cleared(perf')
               ELSE /\ calls' = <<>>
                    /\ perf' = perf
       /\ ev'.name = "dispose" => (Len(calls') = 1 /\ ~unloadListener')
       /\ ~unloadListener => ~unloadListener']_vars

\* C13's case: after a dispose, and events that gave the next session watched
\* seconds and a duration, a page unload came: nothing was delivered and the
\* session is still there
C13_Witness ==
    /\ ev.name = "beforeunload"
    /\ ~unloadListener
    /\ calls = <<>>
    /\ perf.session = 2
    /\ perf.watchedDuration > 0
    /\ perf.totalDuration > 0

----------------------------------------------------------------------------
(* The constructor's claim, under SpecConfig *)

\* C14, as the specification has it: when performance is not a function, or
\* triggerInterval is given and is not a number, no handler ever calls
\* config.performance or changes the aggregator, and no listener is registered.
C14_MisconfigurationDeactivates ==
    [][(\/ ~config.options.given
        \/ config.options.performance # "function"
        \/ config.options.triggerInterval.type \notin {"number", "undefined"})
        => (calls' = <<>> /\ perf' = perf /\ ~unloadListener')]_vars

\* C14: the aggregator is inactive exactly when there are no options or
\* performance is not a function: then no listener is registered, and no
\* handler ever calls config.performance or changes the aggregator.  A
\* triggerInterval that is not a number leaves the aggregator active with the
\* default interval, 10: ended then delivers one snapshot.
C14_GuardDeactivates ==
    [][/\ config.active <=> (config.options.given /\ config.options.performance = "function")
       /\ ~config.active
            => (calls' = <<>> /\ perf' = perf /\ ~unloadListener /\ ~unloadListener')
       /\ (config.active /\ config.options.triggerInterval.type # "number")
            => /\ config.triggerInterval = DefaultTriggerInterval
               /\ ev'.name = "ended" => calls' = <<Snapshot(perf)>>]_vars

\* C14's case: with options whose performance is not a function, ended came:
\* nothing was delivered, and the session is what it was at construction
C14_Witness ==
    /\ config.options.given
    /\ config.options.performance = "undefined"
    /\ ev.name = "ended"
    /\ calls = <<>>
    /\ perf.session = 1
    /\ Cleared(perf)

----------------------------------------------------------------------------
(* The pause tracker's timers, under SpecPause *)

\* C15: dispose, loadstart and ended leave the tracker with pauseTime = 0,
\* pauseCount = 0, initPauseTime = null and locked = false, and no callback
\* that was scheduled before the reset runs after it.
C15_HardResetCancels ==
    [][/\ ev'.name \in {"dispose", "loadstart", "ended"}
            => /\ pt'.pauseTime = 0
               /\ pt'.pauseCount = 0
               /\ pt'.initPauseTime = Null
               /\ ~pt'.locked
       /\ ev'.name = "timer" => ev'.arg.id \notin hist.stale]_vars

\* C16: at most one callback is scheduled and has neither run nor been cleared.
C16_SingleOutstandingTimer == Cardinality(timers) <= 1

----------------------------------------------------------------------------
(* The aggregator's initialLoadTime, under SpecPerf *)

\* C17, as the specification has it: once a tracking:firstplay has set
\* initialLoadTime in a session, a further tracking:firstplay leaves it as it
\* is.
C17_FirstWriterWins ==
    [][(ev'.name = "tracking:firstplay" /\ perf.initialLoadTime # 0)
        => perf'.initialLoadTime = perf.initialLoadTime]_vars

\* C17: every tracking:firstplay sets initialLoadTime to its payload's
\* secondsToLoad, whatever it was, changes nothing else and delivers nothing;
\* no other handler changes initialLoadTime except by a reset, which makes it
\* 0; a snapshot carries the value of the last tracking:firstplay of its
\* session (0 if there was none).
C17_LastWriterWins ==
    [][/\ ev'.name = "tracking:firstplay"
            => /\ perf' = [perf EXCEPT !.initialLoadTime = ev'.arg.secondsToLoad]
               /\ calls' = <<>>
       /\ ev'.name # "tracking:firstplay"
            => perf'.initialLoadTime =
                  IF perf'.session = perf.session THEN perf.initialLoadTime ELSE 0
       /\ \A i \in 1..Len(calls') : calls'[i].initialLoadTime = perf.initialLoadTime]_vars

\* C17's case: in a session whose initialLoadTime a tracking:firstplay had set
\* to 2, a further tracking:firstplay came with secondsToLoad = 1
C17_Witness ==
    /\ ev.name = "tracking:firstplay"
    /\ ev.arg.before = 2
    /\ ev.arg.secondsToLoad = 1
    /\ perf.initialLoadTime = 1

----------------------------------------------------------------------------
(* The pause counts and the pause time, under SpecPause *)

\* C18: the pauseCount of every delivered snapshot is the number of
\* tracking:pause events emitted since the aggregator's last reset, a reset by
\* page unload included: a reset delivers the count of the session it ends, a
\* pause flush the count with the pause it reports.
C18_PauseCountsAgree ==
    [][\A i \in 1..Len(calls') :
          calls'[i].pauseCount =
              IF ev'.name = "timer" THEN hist.counted + 1 ELSE hist.counted]_vars

\* C19: initPauseTime is set only while the last raw play or pause event since
\* the reset is a pause.
C19_PausedTimeOnly == pt.initPauseTime # Null => hist.raw = "pause"

----------------------------------------------------------------------------
(* The pause tracker's progress, under SpecLive *)

\* the callback with handle k has just run and has emitted one tracking:pause
\* with the count it incremented
Confirmed(k) ==
    /\ ev.name = "timer"
    /\ ev.arg.id = k
    /\ Len(emits) = 1
    /\ emits[1].type = "tracking:pause"
    /\ emits[1].data.pauseCount = pt.pauseCount
    /\ pt.pauseCount >= 1

\* C20: when the event loop runs due callbacks, the callback of every accepted
\* raw pause, as long as it is scheduled, leads to its tracking:pause with
\* pauseCount incremented by one, or else to a play, dispose, loadstart or
\* ended event after the pause.
C20_PauseEventuallyConfirmed ==
    /\ [][ev'.name = "timer"
            => /\ pt'.pauseCount = pt.pauseCount + 1
               /\ Len(emits') = 1
               /\ emits'[1].data.pauseCount = pt'.pauseCount]_vars
    /\ \A k \in 1..MaxTimers :
          (k \in Pending(World))
              ~> (Confirmed(k) \/ ev.name \in {"play", "dispose", "loadstart", "ended"})

\* C20's case: two raw pauses were accepted with no play and no reset, and the
\* callback of the second has emitted tracking:pause with pauseCount = 2
C20_Witness ==
    /\ Confirmed(2)
    /\ hist.raw = "pause"
    /\ hist.stale = {}
    /\ hist.pauses = 2
    /\ perf.session = 1


====
